---- MODULE Spec2Model ----
(***************************************************************************)
(* State-machine model of the chatpdf-frontend client:                     *)
(*   - WebSocketChatClient (src/src/services/chat.ts)                      *)
(*   - ChatPanel and the App that renders it                               *)
(*     (src/src/components/ChatPanel.tsx, src/unnamed/part_002)            *)
(*   - TokenManager / ApiClient (src/unnamed/part_004)                     *)
(* The JavaScript runtime is single-threaded: every action below is one    *)
(* task of the event loop (an event handler, a timer callback, or a call   *)
(* made by the user of the object) run to completion.                      *)
(***************************************************************************)
EXTENDS Integers, Sequences, FiniteSets, TLC

----------------------------------------------------------------------------
\* Bounds of the model
MaxSockets == 4          \* WebSocket objects alive (or still referenced) at once
MaxClients == 2          \* WebSocketChatClient objects constructed
MaxCallerConnects == 2   \* connect() calls made by the user of a stand-alone client
MaxTokens == 2           \* token events the server sends for one response
MaxMessages == 2         \* messages in the App's list (a question and its answer are 2)
MaxReqs == 2             \* HTTP requests made through the ApiClient
MaxIssued == 3           \* the last access token the server issues on a refresh
MaxPolls == 2            \* pollStatus calls of ProcessingProgress awaiting their response
MaxRefetches == 2        \* fetchDocuments calls in flight
MaxCallbacks == 2        \* invocations of onComplete / onError of one ProcessingProgress
MaxMgrSockets == 3       \* WebSocket objects of the WebSocketManager not yet closed
MaxFaults == 1           \* network failures and server-side closes of ChatPanel's sockets

\* Program constants
maxReconnectAttempts == 5
reconnectInterval == 1000

Clients == 1..MaxClients
SockIds == 1..MaxSockets
Reqs == 1..MaxReqs
Docs == {1}                     \* documents in the sidebar
Tokens == {"a", "b"}            \* token payloads the server streams
FinalContents == {"ab[p1]", "z"} \* final content of a response_complete message

VARIABLES
    storage,                \* localStorage: [access, refresh, user], 0 = absent
    socks,                  \* the WebSocket objects: id -> record
    ws,                     \* client -> socket id (this.ws), 0 = null
    reconnectAttempts,      \* client -> this.reconnectAttempts
    isIntentionallyClosed,  \* client -> this.isIntentionallyClosed
    timers,                 \* client -> sequence of delays of pending setTimeout callbacks
    clientDoc,              \* client -> document id it was constructed for, 0 = not constructed
    owned,                  \* client -> TRUE when ChatPanel installed its callbacks
    callerConnects,         \* number of connect() calls made by the stand-alone caller
    faults,                 \* number of failures injected into sockets of ChatPanel's clients
    lastEv,                 \* what the last task did (callback invoked, throw, payload sent)
    \* App (part_002) and ChatPanel state
    selectedDocument,       \* App: selected document id, 0 = null
    messages,               \* App: message list
    isGenerating,           \* ChatPanel state
    wsClient,               \* ChatPanel state: client id, 0 = null
    streamingMessage,       \* ChatPanel state: the streaming display buffer
    isConnected,            \* ChatPanel state
    effectWsClient,         \* wsClient as captured by the closure of the installed effect cleanup
    inits,                  \* initializeChat calls awaiting ChatService.createChatSession: document ids
    \* ApiClient (part_004)
    reqs,                   \* HTTP requests made through the axios instance: id -> record
    nextTok,                \* the next access token the server will issue
    apiEv,                  \* what the last task of the ApiClient did
    \* AuthService, auth store and documents store
    userSettings,           \* localStorage 'user_settings': 1 = present, 0 = absent
    authStore,              \* useAuthStore: [user, isAuthenticated, isLoading, error]
    docStore,               \* useDocumentsStore: [documents, selectedDocument, isLoading, error]
    op,                     \* the auth store action in flight and the request it awaits
    fetching,               \* the request fetchDocuments awaits, 0 = none
    authEv,                 \* what the last task of the auth layer did
    \* ProcessingProgress (one mounted instance) and the document it polls
    ppMounted,              \* the component is rendered by DocumentSidebar
    polling,                \* ProcessingProgress state
    interval,               \* the setInterval of the installed effect is active
    polls,                  \* pollStatus calls awaiting their fetch
    docStatus,              \* processing_status of the document on the server
    refetches,              \* fetchDocuments calls in flight (made by onComplete / onError)
    ppEv,                   \* what the last task of the component did
    \* WebSocketManager (src/src/services/rag.ts)
    connections,            \* the static Map: key -> socket id, 0 = no entry
    mgrSocks,               \* sockets the manager created: id -> [rs, key]
    latest,                 \* key -> the socket create(key) returned last, while it counts
    mgrEv                   \* what the last task of the manager did

wsVars == <<storage, socks, ws, reconnectAttempts, isIntentionallyClosed, timers,
            clientDoc, owned, callerConnects, faults, lastEv>>
panelVars == <<selectedDocument, messages, isGenerating, wsClient, streamingMessage,
               isConnected, effectWsClient, inits>>
apiVars == <<reqs, nextTok, apiEv>>
authVars == <<userSettings, authStore, docStore, op, fetching, authEv>>
ppVars == <<ppMounted, polling, interval, polls, docStatus, refetches, ppEv>>
mgrVars == <<connections, mgrSocks, latest, mgrEv>>
uiVars == <<ppVars, mgrVars>>
vars == <<wsVars, panelVars, apiVars, authVars, uiVars>>

----------------------------------------------------------------------------
\* WebSocket objects (browser API)

FreeSock == [rs |-> "FREE", owner |-> 0, wasOpen |-> FALSE, promise |-> "none",
             by |-> "none", resp |-> FALSE, toks |-> <<>>]

\* new WebSocket(wsUrl) inside connect(): readyState CONNECTING, promise of connect() pending.
\* by records who called connect(): "initializeChat" (which awaits the promise), the
\* "caller" of a stand-alone client, or the reconnection "timer".
NewSock(c, by) == [rs |-> "CONNECTING", owner |-> c, wasOpen |-> FALSE, promise |-> "pending",
                   by |-> by, resp |-> FALSE, toks |-> <<>>]

Live(sk, s) == sk[s].rs \in {"CONNECTING", "OPEN"}

\* WebSocket.close(): a connecting or open socket starts closing; otherwise no effect
wsClose(sk, s) ==
    IF Live(sk, s) THEN [sk EXCEPT ![s].rs = "CLOSING", ![s].resp = FALSE, ![s].toks = <<>>]
    ELSE sk

\* A closed socket object that this.ws of no client refers to is unreachable: its slot is reused
Gc(sk, w) ==
    [s \in SockIds |->
        IF sk[s].rs = "CLOSED" /\ \A c \in Clients : w[c] # s THEN FreeSock ELSE sk[s]]

\* The error event and the close event of a failed connection are dispatched in the
\* same task: while a socket is "ERRORED" only its close handler can run.
NoDispatch == \A s \in SockIds : socks[s].rs # "ERRORED"

\* The network or the server breaks socket s (n = 1), bounded for ChatPanel's clients
Fault(s, n) ==
    /\ (owned[socks[s].owner] /\ n > 0) => faults < MaxFaults
    /\ faults' = IF owned[socks[s].owner] THEN faults + n ELSE faults

Ev(kind, c, cb) ==
    [kind |-> kind, c |-> c, cb |-> cb, sched |-> 0, delay |-> 0, threw |-> FALSE,
     sent |-> "none", att |-> 0, intent |-> FALSE, afterErr |-> FALSE, data |-> "",
     json |-> FALSE, wasConnected |-> FALSE, settled |-> "none", buf |-> "", by |-> "none"]

----------------------------------------------------------------------------
\* WebSocketChatClient (src/src/services/chat.ts)

HasFree(sk) == \E s \in SockIds : sk[s].rs = "FREE"
NextFree(sk) == CHOOSE s \in SockIds : sk[s].rs = "FREE" /\ \A r \in SockIds : sk[r].rs = "FREE" => s <= r

\* connect(): throws without an access token; otherwise creates a socket and stores it
\* in this.ws. The socket this.ws referred to before is neither closed nor looked at.
connect(c, sk, w, by) ==
    IF storage.access = 0
    THEN [socks |-> sk, ws |-> w, threw |-> TRUE]
    ELSE [socks |-> [sk EXCEPT ![NextFree(sk)] = NewSock(c, by)],
          ws |-> [w EXCEPT ![c] = NextFree(sk)], threw |-> FALSE]

\* disconnect(): sets the flag, closes this.ws if there is one, forgets it.
\* Pending reconnection timers are left alone.
disconnect(c, sk, w, ic) ==
    [socks |-> IF w[c] # 0 THEN wsClose(sk, w[c]) ELSE sk,
     ws |-> [w EXCEPT ![c] = 0],
     ic |-> [ic EXCEPT ![c] = TRUE]]

\* The guard of sendMessage and updateSettings: !this.ws || this.ws.readyState !== OPEN
NotConnected(sk, w) == w = 0 \/ sk[w].rs # "OPEN"

\* isConnected()
isConnectedClient(c) == ws[c] # 0 /\ socks[ws[c]].rs = "OPEN"

\* The guard of the reconnection in ws.onclose
ShouldReconnect(ic, att) == ~ic /\ att < maxReconnectAttempts

\* The delay given to setTimeout in ws.onclose
ReconnectDelay(att) == reconnectInterval * att

\* setTimeout: the pending callbacks of a client are a bag of delays, kept as a sorted sequence
setTimeout(q, d) ==
    LET k == Cardinality({i \in 1..Len(q) : q[i] <= d})
    IN  SubSeq(q, 1, k) \o <<d>> \o SubSeq(q, k + 1, Len(q))

\* The message types handleMessage only logs
LoggedTypes == {"connection", "message_saved", "response_start", "chunks_retrieved",
                "settings_updated"}

\* handleMessage without its case for 'error'
handleMessageErrorAsUnknown(type) ==
    CASE type \in LoggedTypes -> "none"
      [] type = "token" -> "onToken"
      [] type = "response_complete" -> "onResponseComplete"
      [] OTHER -> "onMessage"

\* handleMessage: the callback property the switch on data.type invokes
handleMessage(type) ==
    CASE type \in LoggedTypes -> "none"
      [] type = "token" -> "onToken"
      [] type = "response_complete" -> "onResponseComplete"
      [] type = "error" -> "onChatError"
      [] OTHER -> "onMessage"

\* Incoming payloads: json = JSON.parse accepts the text; obj = the parsed value is an
\* object (JSON.parse("null") is null, and reading null.type throws a TypeError)
Payload(json, obj, type, body) == [json |-> json, obj |-> obj, type |-> type, body |-> body]

\* ws.onmessage without its try/catch
onmessageOutcomeNoCatch(p) ==
    IF p.json /\ p.obj THEN [cb |-> handleMessage(p.type), threw |-> FALSE]
    ELSE [cb |-> "none", threw |-> TRUE]

\* ws.onmessage: JSON.parse and handleMessage run inside try/catch
onmessageOutcome(p) ==
    IF p.json /\ p.obj THEN [cb |-> handleMessage(p.type), threw |-> FALSE]
    ELSE [cb |-> "none", threw |-> FALSE]

----------------------------------------------------------------------------
\* ChatPanel (src/src/components/ChatPanel.tsx) and App (src/unnamed/part_002)

Constructed == {c \in Clients : clientDoc[c] # 0}

\* client.onToken with the previous buffer dropped
onTokenReplace(prev, token) == token

\* client.onToken: setStreamingMessage(prev => prev + data.token)
onToken(prev, token) == prev \o token

\* App.handleSendMessage: both the INTERNAL_AI_MESSAGE branch and the user branch parse
\* the JSON text and append the message to the list
handleSendMessage(msgs, role, content) == Append(msgs, [role |-> role, content |-> content])

\* Room for one more initializeChat that gets as far as constructing its client
Room == Len(inits) + Cardinality(Constructed) < MaxClients

\* App re-renders: ChatPanel gets a new currentDocument object (part_002 lines 323-326),
\* so the effect's cleanup runs with the wsClient its closure captured, and the effect
\* runs again: initializeChat starts when a document is selected. A createChatSession
\* call beyond the clients the model has room for is one the server rejects (its catch
\* only shows a toast), so it is not kept.
AppRender(sk, doc) ==
    LET old == effectWsClient
        d == IF old # 0 THEN disconnect(old, sk, ws, isIntentionallyClosed)
             ELSE [socks |-> sk, ws |-> ws, ic |-> isIntentionallyClosed]
    IN  /\ ws' = d.ws
        /\ socks' = Gc(d.socks, d.ws)
        /\ isIntentionallyClosed' = d.ic
        /\ wsClient' = IF old # 0 THEN 0 ELSE wsClient
        /\ isConnected' = IF old # 0 THEN FALSE ELSE isConnected
        /\ effectWsClient' = wsClient
        /\ inits' = IF doc # 0 /\ Room THEN Append(inits, doc) ELSE inits

\* A callback property of client c is invoked (this.onX?.(data)); settled is how the
\* promise of an awaited connect() was settled in this task ("none" if it was not).
\* Completes the task: assigns socks, ws, isIntentionallyClosed and the panel state.
Callback(c, cb, data, sk, settled) ==
    IF ~owned[c]
    THEN /\ socks' = Gc(sk, ws)
         /\ UNCHANGED <<ws, isIntentionallyClosed, panelVars>>
    ELSE CASE cb = "onConnect" ->
                /\ isConnected' = TRUE
                /\ wsClient' = IF settled = "resolved" THEN c ELSE wsClient
                /\ socks' = Gc(sk, ws)
                /\ UNCHANGED <<ws, isIntentionallyClosed, selectedDocument, messages,
                               isGenerating, streamingMessage, effectWsClient, inits>>
           [] cb = "onDisconnect" ->
                /\ isConnected' = FALSE
                /\ socks' = Gc(sk, ws)
                /\ UNCHANGED <<ws, isIntentionallyClosed, selectedDocument, messages,
                               isGenerating, wsClient, streamingMessage, effectWsClient, inits>>
           [] cb = "onToken" ->
                /\ streamingMessage' = onToken(streamingMessage, data)
                /\ socks' = Gc(sk, ws)
                /\ UNCHANGED <<ws, isIntentionallyClosed, selectedDocument, messages,
                               isGenerating, wsClient, isConnected, effectWsClient, inits>>
           [] cb = "onResponseComplete" ->
                /\ messages' = handleSendMessage(messages, "ai", data)
                /\ streamingMessage' = ""
                /\ isGenerating' = FALSE
                /\ AppRender(sk, selectedDocument)
                /\ UNCHANGED selectedDocument
           [] cb = "onChatError" ->
                /\ isGenerating' = FALSE
                /\ streamingMessage' = ""
                /\ socks' = Gc(sk, ws)
                /\ UNCHANGED <<ws, isIntentionallyClosed, selectedDocument, messages,
                               wsClient, isConnected, effectWsClient, inits>>
           [] OTHER ->   \* onError, onMessage: ChatPanel installs neither
                /\ socks' = Gc(sk, ws)
                /\ UNCHANGED <<ws, isIntentionallyClosed, panelVars>>

----------------------------------------------------------------------------
\* Socket events

\* ws.onopen
onopen(s) ==
    LET c == socks[s].owner
        settled == IF socks[s].promise = "pending" THEN "resolved" ELSE "none"
        sk == [socks EXCEPT ![s].rs = "OPEN", ![s].wasOpen = TRUE,
                            ![s].promise = IF settled = "resolved" THEN "resolved" ELSE @]
    IN  /\ NoDispatch
        /\ socks[s].rs = "CONNECTING"
        /\ reconnectAttempts' = [reconnectAttempts EXCEPT ![c] = 0]
        /\ Callback(c, "onConnect", "", sk, IF socks[s].by = "initializeChat" THEN settled ELSE "none")
        /\ lastEv' = [Ev("open", c, "onConnect") EXCEPT !.settled = settled]
        /\ UNCHANGED <<faults, storage, timers, clientDoc, owned, callerConnects, apiVars, authVars, uiVars>>

\* ws.onmessage for payload p; the server state of the socket (resp, toks) moves with it
onmessage(s, p) ==
    LET c == socks[s].owner
        o == onmessageOutcome(p)
        sk == CASE p.json /\ p.obj /\ p.type = "token" ->
                      [socks EXCEPT ![s].toks = IF owned[c] THEN Append(@, p.body) ELSE @]
                 [] p.json /\ p.obj /\ p.type \in {"response_complete", "error"} ->
                      [socks EXCEPT ![s].resp = FALSE, ![s].toks = <<>>]
                 [] OTHER -> socks
    IN  /\ NoDispatch
        /\ socks[s].rs = "OPEN"
        /\ Callback(c, o.cb, p.body, sk, "none")
        /\ lastEv' = [Ev("message", c, o.cb) EXCEPT !.threw = o.threw,
                                                   !.data = IF owned[c] THEN p.body ELSE "",
                                                   !.json = p.json,
                                                   !.buf = IF owned[c] /\ o.cb = "onResponseComplete"
                                                           THEN streamingMessage ELSE ""]
        /\ UNCHANGED <<faults, storage, reconnectAttempts, timers, clientDoc, owned, callerConnects,
                       apiVars, authVars, uiVars>>

\* ws.onclose
onclose(s) ==
    LET c == socks[s].owner
        should == ShouldReconnect(isIntentionallyClosed[c], reconnectAttempts[c])
        sk == [socks EXCEPT ![s].rs = "CLOSED", ![s].resp = FALSE, ![s].toks = <<>>]
    IN  /\ \/ NoDispatch /\ socks[s].rs = "OPEN"
           \/ NoDispatch /\ socks[s].rs = "CLOSING" /\ socks[s].wasOpen
           \/ socks[s].rs = "ERRORED"
        /\ Fault(s, IF socks[s].rs = "OPEN" THEN 1 ELSE 0)
        /\ timers' = IF should
                     THEN [timers EXCEPT ![c] = setTimeout(@, ReconnectDelay(reconnectAttempts[c]))]
                     ELSE timers
        /\ Callback(c, "onDisconnect", "", sk, "none")
        /\ lastEv' = [Ev("close", c, "onDisconnect") EXCEPT
                         !.sched = Len(timers'[c]) - Len(timers[c]),
                         !.delay = IF should THEN ReconnectDelay(reconnectAttempts[c]) ELSE 0,
                         !.att = reconnectAttempts[c],
                         !.intent = isIntentionallyClosed[c],
                         !.afterErr = (socks[s].rs = "ERRORED")]
        /\ UNCHANGED <<storage, reconnectAttempts, clientDoc, owned, callerConnects, apiVars, authVars, uiVars>>

\* ws.onerror settling the promise of connect() with resolve() instead of reject()
onerrorResolving(s) ==
    LET c == socks[s].owner
        settled == IF socks[s].promise = "pending" THEN "resolved" ELSE "none"
        sk == [socks EXCEPT ![s].rs = "ERRORED", ![s].resp = FALSE, ![s].toks = <<>>,
                            ![s].promise = IF settled = "resolved" THEN "resolved" ELSE @]
    IN  /\ NoDispatch
        /\ \/ Live(socks, s)
           \/ socks[s].rs = "CLOSING" /\ ~socks[s].wasOpen
        /\ Fault(s, IF Live(socks, s) THEN 1 ELSE 0)
        /\ socks' = sk
        /\ lastEv' = [Ev("error", c, "onError") EXCEPT !.settled = settled,
                                                     !.intent = isIntentionallyClosed[c]]
        /\ UNCHANGED <<storage, ws, reconnectAttempts, isIntentionallyClosed, timers, clientDoc,
                       owned, callerConnects, panelVars, apiVars, authVars, uiVars>>

\* ws.onerror with the client marked as closed on purpose
onerrorMarking(s) ==
    LET c == socks[s].owner
        settled == IF socks[s].promise = "pending" THEN "rejected" ELSE "none"
        sk == [socks EXCEPT ![s].rs = "ERRORED", ![s].resp = FALSE, ![s].toks = <<>>,
                            ![s].promise = IF settled = "rejected" THEN "rejected" ELSE @]
    IN  /\ NoDispatch
        /\ \/ Live(socks, s)
           \/ socks[s].rs = "CLOSING" /\ ~socks[s].wasOpen
        /\ Fault(s, IF Live(socks, s) THEN 1 ELSE 0)
        /\ socks' = sk
        /\ isIntentionallyClosed' = [isIntentionallyClosed EXCEPT ![c] = TRUE]
        /\ lastEv' = [Ev("error", c, "onError") EXCEPT !.settled = settled,
                                                     !.intent = isIntentionallyClosed[c]]
        /\ UNCHANGED <<storage, ws, reconnectAttempts, timers, clientDoc,
                       owned, callerConnects, panelVars, apiVars, authVars, uiVars>>

\* ws.onerror: logs, invokes onError, rejects the promise of connect(). ChatPanel sets
\* no onError, and its catch of the rejected connect() only shows a toast.
onerror(s) ==
    LET c == socks[s].owner
        settled == IF socks[s].promise = "pending" THEN "rejected" ELSE "none"
        sk == [socks EXCEPT ![s].rs = "ERRORED", ![s].resp = FALSE, ![s].toks = <<>>,
                            ![s].promise = IF settled = "rejected" THEN "rejected" ELSE @]
    IN  /\ NoDispatch
        /\ \/ Live(socks, s)
           \/ socks[s].rs = "CLOSING" /\ ~socks[s].wasOpen
        /\ Fault(s, IF Live(socks, s) THEN 1 ELSE 0)
        /\ socks' = sk
        /\ lastEv' = [Ev("error", c, "onError") EXCEPT !.settled = settled,
                                                     !.intent = isIntentionallyClosed[c]]
        /\ UNCHANGED <<storage, ws, reconnectAttempts, isIntentionallyClosed, timers, clientDoc,
                       owned, callerConnects, panelVars, apiVars, authVars, uiVars>>

\* The setTimeout callback of ws.onclose: counts the attempt, then calls connect()
\* (whose promise nobody awaits)
TimerFire(c, i) ==
    LET r == connect(c, socks, ws, "timer")
    IN  /\ NoDispatch
        /\ i \in 1..Len(timers[c])
        /\ storage.access # 0 => HasFree(socks)
        /\ timers' = [timers EXCEPT ![c] = SubSeq(@, 1, i - 1) \o SubSeq(@, i + 1, Len(@))]
        /\ reconnectAttempts' = [reconnectAttempts EXCEPT ![c] = @ + 1]
        /\ ws' = r.ws
        /\ socks' = Gc(r.socks, r.ws)
        /\ lastEv' = [Ev("timer", c, "none") EXCEPT !.threw = r.threw,
                                                   !.delay = timers[c][i],
                                                   !.att = reconnectAttempts[c],
                                                   !.intent = isIntentionallyClosed[c]]
        /\ UNCHANGED <<faults, storage, isIntentionallyClosed, clientDoc, owned, callerConnects,
                       panelVars, apiVars, authVars, uiVars>>

----------------------------------------------------------------------------
\* The server side of an open socket

Malformed == Payload(FALSE, FALSE, "", "")          \* text JSON.parse rejects
JsonNull == Payload(TRUE, FALSE, "", "")            \* the JSON text null
Unknown == Payload(TRUE, TRUE, "pong", "")          \* a type handleMessage does not know

\* What the server may send on socket s: token, response_complete and error only while
\* a chat_message sent on s is unanswered; other payloads at any time. ChatPanel installs
\* no onMessage, so the other payloads change nothing for its clients: they are sent to
\* the stand-alone client.
PayloadsFor(s) ==
    (IF owned[socks[s].owner] THEN {}
     ELSE {Malformed, JsonNull, Unknown} \cup {Payload(TRUE, TRUE, ty, "") : ty \in LoggedTypes})
    \cup (IF socks[s].resp
          THEN {Payload(TRUE, TRUE, "response_complete", k) : k \in FinalContents}
               \cup {Payload(TRUE, TRUE, "error", "failed")}
               \cup (IF owned[socks[s].owner] => Len(socks[s].toks) < MaxTokens
                     THEN {Payload(TRUE, TRUE, "token", k) : k \in Tokens} ELSE {})
          ELSE {})

ServerMessage(s) ==
    /\ socks[s].rs = "OPEN"
    /\ \E p \in PayloadsFor(s) : onmessage(s, p)

----------------------------------------------------------------------------
\* Calls made by the user of a stand-alone WebSocketChatClient

Standalone(c) == clientDoc[c] # 0 /\ ~owned[c]

\* sendMessage / updateSettings: throw unless this.ws is OPEN, else ws.send(payload)
sendMessage(c, sk, w, kind) ==
    IF NotConnected(sk, w[c])
    THEN [socks |-> sk, threw |-> TRUE, sent |-> "none"]
    ELSE [socks |-> IF kind = "chat_message" THEN [sk EXCEPT ![w[c]].resp = TRUE] ELSE sk,
          threw |-> FALSE, sent |-> kind]

CallerConnect(c) ==
    LET r == connect(c, socks, ws, "caller")
    IN  /\ NoDispatch
        /\ Standalone(c)
        /\ callerConnects < MaxCallerConnects
        /\ storage.access # 0 => HasFree(socks)
        /\ callerConnects' = callerConnects + 1
        /\ ws' = r.ws
        /\ socks' = Gc(r.socks, r.ws)
        /\ lastEv' = [Ev("connect", c, "none") EXCEPT !.threw = r.threw]
        /\ UNCHANGED <<faults, storage, reconnectAttempts, isIntentionallyClosed, timers, clientDoc,
                       owned, panelVars, apiVars, authVars, uiVars>>

CallerDisconnect(c) ==
    LET r == disconnect(c, socks, ws, isIntentionallyClosed)
    IN  /\ NoDispatch
        /\ Standalone(c)
        /\ ws' = r.ws
        /\ socks' = Gc(r.socks, r.ws)
        /\ isIntentionallyClosed' = r.ic
        /\ lastEv' = Ev("disconnect", c, "none")
        /\ UNCHANGED <<faults, storage, reconnectAttempts, timers, clientDoc, owned, callerConnects,
                       panelVars, apiVars, authVars, uiVars>>

CallerSend(c, kind) ==
    LET r == sendMessage(c, socks, ws, kind)
    IN  /\ NoDispatch
        /\ Standalone(c)
        /\ socks' = r.socks
        /\ lastEv' = [Ev(IF kind = "chat_message" THEN "sendMessage" ELSE "updateSettings",
                         c, "none") EXCEPT
                         !.threw = r.threw, !.sent = r.sent,
                         !.wasConnected = isConnectedClient(c),
                         !.intent = isIntentionallyClosed[c],
                         !.by = IF ws[c] # 0 THEN socks[ws[c]].by ELSE "none"]
        /\ UNCHANGED <<faults, storage, ws, reconnectAttempts, isIntentionallyClosed, timers, clientDoc,
                       owned, callerConnects, panelVars, apiVars, authVars, uiVars>>

CallerSendMessage(c) == CallerSend(c, "chat_message")
CallerUpdateSettings(c) == CallerSend(c, "settings_update")

\* TokenManager.clearTokens() run by some other part of the application
clearTokens == [access |-> 0, refresh |-> 0, user |-> 0]

TokensCleared ==
    /\ NoDispatch
    /\ storage.access # 0
    /\ storage' = clearTokens
    /\ lastEv' = Ev("clearTokens", 0, "none")
    /\ UNCHANGED <<faults, socks, ws, reconnectAttempts, isIntentionallyClosed, timers, clientDoc,
                   owned, callerConnects, panelVars, apiVars, authVars, uiVars>>

----------------------------------------------------------------------------
\* ChatPanel and App actions

RemoveAt(q, i) == SubSeq(q, 1, i - 1) \o SubSeq(q, i + 1, Len(q))
NewClient == CHOOSE c \in Clients : clientDoc[c] = 0 /\ \A k \in Clients : clientDoc[k] = 0 => c <= k

\* DocumentSidebar onSelectDocument: setSelectedDocument, setMessages([]), setCurrentPage(1)
SelectDocument(d) ==
    /\ NoDispatch
    /\ selectedDocument' = d
    /\ messages' = <<>>
    /\ AppRender(socks, d)
    /\ lastEv' = Ev("select", 0, "none")
    /\ UNCHANGED <<faults, storage, reconnectAttempts, timers, clientDoc, owned, callerConnects,
                   isGenerating, streamingMessage, apiVars, authVars, uiVars>>

\* confirmDelete of the selected document when no document remains
DeselectDocument ==
    /\ NoDispatch
    /\ selectedDocument # 0
    /\ selectedDocument' = 0
    /\ messages' = <<>>
    /\ AppRender(socks, 0)
    /\ lastEv' = Ev("deselect", 0, "none")
    /\ UNCHANGED <<faults, storage, reconnectAttempts, timers, clientDoc, owned, callerConnects,
                   isGenerating, streamingMessage, apiVars, authVars, uiVars>>

\* Any other state change of App (sidebar toggle, modal, page highlight): App renders again
AppRerender ==
    /\ NoDispatch
    /\ selectedDocument # 0
    /\ AppRender(socks, selectedDocument)
    /\ lastEv' = Ev("rerender", 0, "none")
    /\ UNCHANGED <<faults, storage, reconnectAttempts, timers, clientDoc, owned, callerConnects,
                   selectedDocument, messages, isGenerating, streamingMessage, apiVars, authVars, uiVars>>

\* initializeChat after createChatSession resolved: constructs the client, installs the
\* callbacks and calls connect(); a throw of connect() is caught (toast)
SessionCreated(i) ==
    LET c == NewClient
        r == connect(c, socks, ws, "initializeChat")
    IN  /\ NoDispatch
        /\ i \in 1..Len(inits)
        /\ storage.access # 0 => HasFree(socks)
        /\ inits' = RemoveAt(inits, i)
        /\ clientDoc' = [clientDoc EXCEPT ![c] = inits[i]]
        /\ owned' = [owned EXCEPT ![c] = TRUE]
        /\ ws' = r.ws
        /\ socks' = Gc(r.socks, r.ws)
        /\ lastEv' = [Ev("initializeChat", c, "none") EXCEPT !.threw = r.threw]
        /\ UNCHANGED <<faults, storage, reconnectAttempts, isIntentionallyClosed, timers,
                       callerConnects, selectedDocument, messages, isGenerating, wsClient,
                       streamingMessage, isConnected, effectWsClient, apiVars, authVars, uiVars>>

\* initializeChat when createChatSession rejects: caught (toast)
SessionFailed(i) ==
    /\ NoDispatch
    /\ i \in 1..Len(inits)
    /\ inits' = RemoveAt(inits, i)
    /\ lastEv' = Ev("initializeChatFailed", 0, "none")
    /\ UNCHANGED <<faults, storage, socks, ws, reconnectAttempts, isIntentionallyClosed, timers,
                   clientDoc, owned, callerConnects, selectedDocument, messages, isGenerating,
                   wsClient, streamingMessage, isConnected, effectWsClient, apiVars, authVars, uiVars>>

\* handleSend with a non-empty input (the input box is rendered only with a document)
handleSend ==
    /\ NoDispatch
    /\ selectedDocument # 0
    /\ IF wsClient # 0 /\ isConnectedClient(wsClient) /\ ~isGenerating
       THEN LET r == sendMessage(wsClient, socks, ws, "chat_message")
            IN  /\ Len(messages) + 2 <= MaxMessages
                /\ IF r.threw
                   THEN /\ isGenerating' = FALSE
                        /\ socks' = r.socks
                        /\ UNCHANGED <<ws, isIntentionallyClosed, selectedDocument, messages,
                                       wsClient, streamingMessage, isConnected,
                                       effectWsClient, inits>>
                   ELSE /\ messages' = handleSendMessage(messages, "user", "q")
                        /\ isGenerating' = TRUE
                        /\ streamingMessage' = ""
                        /\ AppRender(r.socks, selectedDocument)
                        /\ UNCHANGED selectedDocument
                /\ lastEv' = [Ev("handleSend", wsClient, "none") EXCEPT
                                 !.threw = r.threw, !.sent = r.sent, !.wasConnected = TRUE]
       ELSE /\ lastEv' = Ev("handleSend", wsClient, "none")
            /\ UNCHANGED <<socks, ws, isIntentionallyClosed, panelVars>>
    /\ UNCHANGED <<faults, storage, reconnectAttempts, timers, clientDoc, owned, callerConnects,
                   apiVars, authVars, uiVars>>

----------------------------------------------------------------------------
\* TokenManager and ApiClient (src/unnamed/part_004)

\* epoch: how many tokens the server had issued when the request's refreshToken() began
NoReq == [st |-> "idle", retry |-> FALSE, sends |-> 0, refreshes |-> 0, tok |-> 0,
          captured |-> 0, result |-> 0, epoch |-> 0]
ApiEv(kind, r, status) == [kind |-> kind, r |-> r, status |-> status, tok |-> 0]

\* Statuses of a failed request: 0 = no response received (network error)
ErrorStatuses == {0, 400, 401, 500}

\* TokenManager.setTokens(accessToken, refreshToken, user?)
setTokens(st, access, refresh, user) ==
    [access |-> access, refresh |-> refresh, user |-> IF user # 0 THEN user ELSE st.user]

\* The response interceptor's test, without the _retry flag
ShouldRefreshAlways(status, retry) == status = 401

\* The response interceptor's test: error.response?.status === 401 && !originalRequest._retry
ShouldRefresh(status, retry) == status = 401 /\ ~retry

\* A request is made: the request interceptor adds the stored access token
ApiRequest(r) ==
    /\ reqs[r].st = "idle"
    /\ reqs' = [reqs EXCEPT ![r].st = "sent", ![r].sends = 1, ![r].tok = storage.access]
    /\ apiEv' = [ApiEv("request", r, 0) EXCEPT !.tok = storage.access]
    /\ UNCHANGED <<storage, nextTok>>

\* A 2xx response: (response) => response
ApiResponseOk(r) ==
    /\ reqs[r].st = "sent"
    /\ reqs' = [reqs EXCEPT ![r].st = "done", ![r].result = 200]
    /\ apiEv' = ApiEv("ok", r, 200)
    /\ UNCHANGED <<storage, nextTok>>

\* An error response (or none): the response interceptor. On a first 401 it sets _retry
\* and calls refreshToken(), which returns false at once when no refresh token is stored
\* (then clearTokens and ApiException 401), else posts the refresh request. Otherwise handleError.
ApiResponseError(r, status) ==
    /\ reqs[r].st = "sent"
    /\ IF ShouldRefresh(status, reqs[r].retry)
       THEN IF storage.refresh = 0
            THEN /\ reqs' = [reqs EXCEPT ![r].st = "failed", ![r].retry = TRUE,
                                         ![r].refreshes = @ + 1, ![r].result = 401,
                                         ![r].epoch = nextTok]
                 /\ storage' = clearTokens
                 /\ apiEv' = ApiEv("fail", r, 401)
            ELSE /\ reqs' = [reqs EXCEPT ![r].st = "refreshing", ![r].retry = TRUE,
                                         ![r].refreshes = @ + 1,
                                         ![r].captured = storage.refresh,
                                         ![r].epoch = nextTok]
                 /\ apiEv' = ApiEv("refresh", r, status)
                 /\ UNCHANGED storage
       ELSE /\ reqs' = [reqs EXCEPT ![r].st = "failed", ![r].result = status]
            /\ apiEv' = ApiEv("fail", r, status)
            /\ UNCHANGED storage
    /\ UNCHANGED nextTok

\* The refresh request succeeds: setTokens(data.access, data.refresh || refreshToken,
\* data.user), refreshToken() returns true, and the interceptor sends the original request
\* again; the request interceptor adds the stored access token.
RefreshOk(r, rotate, user) ==
    /\ reqs[r].st = "refreshing"
    /\ storage' = setTokens(storage, nextTok,
                            IF rotate THEN nextTok ELSE reqs[r].captured, user)
    /\ nextTok' = nextTok + 1
    /\ reqs' = [reqs EXCEPT ![r].st = "sent", ![r].sends = @ + 1,
                            ![r].tok = storage'.access]
    /\ apiEv' = [ApiEv("retry", r, 0) EXCEPT !.tok = nextTok]

\* The refresh request fails: refreshToken() returns false; clearTokens, ApiException 401
RefreshFail(r) ==
    /\ reqs[r].st = "refreshing"
    /\ storage' = clearTokens
    /\ reqs' = [reqs EXCEPT ![r].st = "failed", ![r].result = 401]
    /\ apiEv' = ApiEv("fail", r, 401)
    /\ UNCHANGED nextTok

----------------------------------------------------------------------------
\* AuthService (src/src/services/auth.ts), useAuthStore (src/src/stores/authStore.ts)
\* and useDocumentsStore (src/src/stores/documentsStore.ts)

InitialAuthStore == [user |-> 0, isAuthenticated |-> FALSE, isLoading |-> FALSE, error |-> FALSE]
InitialDocStore == [documents |-> 0, selectedDocument |-> 0, isLoading |-> FALSE, error |-> FALSE]
NoOp == [kind |-> "none", req |-> 0]
\* failed: AuthService.login did not get a response with access, refresh and user
AuthEv(kind, outcome) == [kind |-> kind, outcome |-> outcome, failed |-> FALSE]

\* A request of the auth layer has been answered and its continuation (the code after
\* the await) has not run yet: it runs in the same task, before anything else
Awaited(r) == (op.kind # "none" /\ op.req = r) \/ fetching = r
Settled(r) == reqs[r].st \in {"done", "failed"}
NoContinuation == \A r \in Reqs : ~(Awaited(r) /\ Settled(r))

\* useDocumentsStore.reset() leaving the document list in place
resetKeepingDocuments(ds) == [InitialDocStore EXCEPT !.documents = ds.documents]

\* useDocumentsStore.reset()
reset(ds) == InitialDocStore

\* AuthService.login without the clearTokens() of its catch
AuthServiceLoginNoClear(st, ok, valid) ==
    IF ok /\ valid
    THEN [storage |-> setTokens(st, 1, 1, 1), threw |-> FALSE]
    ELSE [storage |-> st, threw |-> TRUE]

\* AuthService.login once apiClient.post has settled: ok = the request succeeded,
\* valid = the response has access, refresh and user
AuthServiceLogin(st, ok, valid) ==
    IF ok /\ valid
    THEN [storage |-> setTokens(st, 1, 1, 1), threw |-> FALSE]
    ELSE [storage |-> clearTokens, threw |-> TRUE]

\* useAuthStore.login up to the await: set({isLoading: true, error: null}); the request
\* goes out through the ApiClient
LoginStart(r) ==
    /\ NoContinuation
    /\ op = NoOp
    /\ ~authStore.isAuthenticated
    /\ ApiRequest(r)
    /\ op' = [kind |-> "login", req |-> r]
    /\ authStore' = [authStore EXCEPT !.isLoading = TRUE, !.error = FALSE]
    /\ authEv' = AuthEv("loginStart", "none")
    /\ UNCHANGED <<userSettings, docStore, fetching>>

\* useAuthStore.login after the await: AuthService.login returned or threw
LoginSettled(valid, settings) ==
    LET r == op.req
        a == AuthServiceLogin(storage, reqs[r].st = "done", valid)
    IN  /\ op.kind = "login"
        /\ Settled(r)
        /\ storage' = a.storage
        /\ IF a.threw
           THEN /\ authStore' = [user |-> 0, isAuthenticated |-> FALSE, isLoading |-> FALSE,
                                 error |-> TRUE]
                /\ UNCHANGED userSettings
           ELSE /\ authStore' = [user |-> 1, isAuthenticated |-> TRUE, isLoading |-> FALSE,
                                 error |-> FALSE]
                /\ userSettings' = IF settings THEN 1 ELSE userSettings
        /\ authEv' = [AuthEv("login", IF a.threw THEN "threw" ELSE "ok") EXCEPT
                          !.failed = ~(reqs[r].st = "done" /\ valid)]
        /\ reqs' = [reqs EXCEPT ![r] = NoReq]
        /\ op' = NoOp
        /\ UNCHANGED <<nextTok, apiEv, docStore, fetching>>

\* The end of useAuthStore.logout: the finally of AuthService.logout (clearTokens,
\* removeItem('user_settings')), then the reset of the auth store and of the documents store
LogoutEnd(server) ==
    /\ storage' = clearTokens
    /\ userSettings' = 0
    /\ authStore' = InitialAuthStore
    /\ docStore' = reset(docStore)
    /\ authEv' = AuthEv("logout", server)
    /\ op' = NoOp

\* useAuthStore.logout: AuthService.logout posts the refresh token when there is one
\* and otherwise goes straight to its finally
LogoutStart(r) ==
    /\ NoContinuation
    /\ op = NoOp
    /\ authStore.isAuthenticated
    /\ IF storage.refresh # 0
       THEN /\ ApiRequest(r)
            /\ op' = [kind |-> "logout", req |-> r]
            /\ authEv' = AuthEv("logoutStart", "none")
            /\ UNCHANGED <<userSettings, authStore, docStore>>
       ELSE /\ LogoutEnd("skipped")
            /\ UNCHANGED <<reqs, nextTok, apiEv>>
    /\ UNCHANGED fetching

\* AuthService.logout after the await: the request succeeded, or failed and was caught
LogoutSettled ==
    LET r == op.req
    IN  /\ op.kind = "logout"
        /\ Settled(r)
        /\ LogoutEnd(IF reqs[r].st = "done" THEN "ok" ELSE "failed")
        /\ reqs' = [reqs EXCEPT ![r] = NoReq]
        /\ UNCHANGED <<nextTok, apiEv, fetching>>

\* useDocumentsStore.fetchDocuments up to the await
FetchStart(r) ==
    /\ NoContinuation
    /\ authStore.isAuthenticated
    /\ fetching = 0
    /\ ApiRequest(r)
    /\ fetching' = r
    /\ docStore' = [docStore EXCEPT !.isLoading = TRUE, !.error = FALSE]
    /\ authEv' = AuthEv("fetchStart", "none")
    /\ UNCHANGED <<userSettings, authStore, op>>

\* useDocumentsStore.fetchDocuments after the await
FetchSettled ==
    LET r == fetching
    IN  /\ r # 0
        /\ Settled(r)
        /\ docStore' = IF reqs[r].st = "done"
                       THEN [docStore EXCEPT !.documents = 1, !.isLoading = FALSE]
                       ELSE [docStore EXCEPT !.error = TRUE, !.isLoading = FALSE]
        /\ fetching' = 0
        /\ reqs' = [reqs EXCEPT ![r] = NoReq]
        /\ authEv' = AuthEv("fetch", IF reqs[r].st = "done" THEN "ok" ELSE "failed")
        /\ UNCHANGED <<storage, nextTok, apiEv, userSettings, authStore, op>>

\* useDocumentsStore.selectDocument(document)
selectDocument ==
    /\ NoContinuation
    /\ authStore.isAuthenticated
    /\ docStore.documents > 0
    /\ docStore.selectedDocument = 0
    /\ docStore' = [docStore EXCEPT !.selectedDocument = 1]
    /\ authEv' = AuthEv("selectDocument", "none")
    /\ UNCHANGED <<storage, apiVars, userSettings, authStore, op, fetching>>

\* TokenManager.isAuthenticated(): an access token and a refresh token are stored
hasTokens(st) == st.access # 0 /\ st.refresh # 0

\* The catch of checkAuth's profile fetch treating every error as the loss of authentication
checkAuthCatchAlwaysLogout(st, as, status) ==
    [storage |-> clearTokens,
     authStore |-> [as EXCEPT !.user = 0, !.isAuthenticated = FALSE, !.isLoading = FALSE]]

\* The catch of checkAuth's profile fetch: on profileError.status === 401 clearTokens and
\* an unauthenticated store; on any other error the store takes the cached user,
\* isAuthenticated = !!cachedUser, and an error message
checkAuthCatch(st, as, status) ==
    IF status = 401
    THEN [storage |-> clearTokens,
          authStore |-> [as EXCEPT !.user = 0, !.isAuthenticated = FALSE, !.isLoading = FALSE]]
    ELSE [storage |-> st,
          authStore |-> [user |-> st.user, isAuthenticated |-> st.user # 0,
                         isLoading |-> FALSE, error |-> TRUE]]

\* useAuthStore.checkAuth up to the await: set({isLoading: true}); without tokens the
\* store ends unauthenticated at once, else the profile is fetched through the ApiClient
checkAuthStart(r) ==
    /\ NoContinuation
    /\ op = NoOp
    /\ IF ~hasTokens(storage)
       THEN /\ authStore' = [authStore EXCEPT !.user = 0, !.isAuthenticated = FALSE,
                                              !.isLoading = FALSE]
            /\ authEv' = AuthEv("checkAuth", "noTokens")
            /\ UNCHANGED <<storage, apiVars, op>>
       ELSE /\ ApiRequest(r)
            /\ authStore' = [authStore EXCEPT !.isLoading = TRUE]
            /\ op' = [kind |-> "checkAuth", req |-> r]
            /\ authEv' = AuthEv("checkAuthStart", "none")
    /\ UNCHANGED <<userSettings, docStore, fetching>>

\* useAuthStore.checkAuth after the await: AuthService.getProfile returned the user or threw
checkAuthSettled ==
    LET r == op.req
        a == checkAuthCatch(storage, authStore, reqs[r].result)
    IN  /\ op.kind = "checkAuth"
        /\ Settled(r)
        /\ IF reqs[r].st = "done"
           THEN /\ authStore' = [authStore EXCEPT !.user = 1, !.isAuthenticated = TRUE,
                                                  !.isLoading = FALSE]
                /\ UNCHANGED storage
           ELSE /\ authStore' = a.authStore
                /\ storage' = a.storage
        /\ authEv' = AuthEv("checkAuth", IF reqs[r].st = "done" THEN "ok"
                                         ELSE IF reqs[r].result = 401 THEN "401" ELSE "other")
        /\ reqs' = [reqs EXCEPT ![r] = NoReq]
        /\ op' = NoOp
        /\ UNCHANGED <<nextTok, apiEv, userSettings, docStore, fetching>>

\* useAuthStore.register up to the await: set({isLoading: true, error: null})
registerStart(r) ==
    /\ NoContinuation
    /\ op = NoOp
    /\ ~authStore.isAuthenticated
    /\ ApiRequest(r)
    /\ op' = [kind |-> "register", req |-> r]
    /\ authStore' = [authStore EXCEPT !.isLoading = TRUE, !.error = FALSE]
    /\ authEv' = AuthEv("registerStart", "none")
    /\ UNCHANGED <<userSettings, docStore, fetching>>

\* useAuthStore.register after the await: AuthService.register stored the tokens of the
\* response and returned, or rethrew the error of the request (its catch clears nothing)
registerSettled ==
    LET r == op.req
    IN  /\ op.kind = "register"
        /\ Settled(r)
        /\ IF reqs[r].st = "done"
           THEN /\ storage' = setTokens(storage, 1, 1, 1)
                /\ authStore' = [authStore EXCEPT !.user = 1, !.isAuthenticated = TRUE,
                                                  !.isLoading = FALSE]
           ELSE /\ authStore' = [authStore EXCEPT !.error = TRUE, !.isLoading = FALSE]
                /\ UNCHANGED storage
        /\ authEv' = AuthEv("register", IF reqs[r].st = "done" THEN "ok" ELSE "threw")
        /\ reqs' = [reqs EXCEPT ![r] = NoReq]
        /\ op' = NoOp
        /\ UNCHANGED <<nextTok, apiEv, userSettings, docStore, fetching>>

\* A step of the ApiClient for a request the auth layer made; the server stops issuing
\* new tokens after MaxIssued of them
AuthApiStep ==
    /\ NoContinuation
    /\ \/ \E r \in Reqs : ApiResponseOk(r)
       \/ \E r \in Reqs : \E status \in ErrorStatuses : ApiResponseError(r, status)
       \/ \E r \in Reqs : \E rotate \in BOOLEAN : \E user \in {0, 1} :
             nextTok <= MaxIssued /\ RefreshOk(r, rotate, user)
       \/ \E r \in Reqs : RefreshFail(r)
    /\ authEv' = AuthEv("api", "none")
    /\ UNCHANGED <<userSettings, authStore, docStore, op, fetching>>

----------------------------------------------------------------------------
\* ProcessingProgress (src/src/components/ProcessingProgress.tsx) as rendered by
\* DocumentSidebar (src/src/components/DocumentSidebar.tsx)

Terminal == {"completed", "failed"}

\* ppEv: the last task (kind, outcome of a response, status requests it issued, callback
\* it invoked) and two records of the past: seen = a completed / failed response has been
\* handled, calls = invocations of onComplete / onError so far
PpEv(kind, outcome, issued, cb) ==
    [kind |-> kind, outcome |-> outcome, issued |-> issued, cb |-> cb,
     seen |-> ppEv.seen \/ outcome \in Terminal,
     calls |-> ppEv.calls + (IF cb = "none" THEN 0 ELSE 1)]

\* The effect of ProcessingProgress runs (mount, or a change of documentId, polling,
\* onComplete or onError; DocumentSidebar passes new onComplete / onError functions on
\* every render): the previous cleanup clears the interval, pollStatus() is called at
\* once, and setInterval(pollStatus, 2000) is installed when polling is set
EffectRun(inFlight, pollingNow) ==
    /\ inFlight < MaxPolls
    /\ polls' = inFlight + 1
    /\ interval' = pollingNow

\* DocumentSidebar renders a ProcessingProgress for a document that is being processed
Mount ==
    /\ ~ppMounted
    /\ ppEv.kind = "init"
    /\ docStatus = "processing"
    /\ ppMounted' = TRUE
    /\ polling' = TRUE
    /\ EffectRun(polls, TRUE)
    /\ ppEv' = PpEv("mount", "none", 1, "none")
    /\ UNCHANGED <<docStatus, refetches>>

\* The setInterval callback: pollStatus()
IntervalTick ==
    /\ interval
    /\ polls < MaxPolls
    /\ polls' = polls + 1
    /\ ppEv' = PpEv("tick", "none", 1, "none")
    /\ UNCHANGED <<ppMounted, polling, interval, docStatus, refetches>>

\* The server finishes processing the document
ServerFinishes(st) ==
    /\ docStatus = "processing"
    /\ docStatus' = st
    /\ ppEv' = PpEv("server", "none", 0, "none")
    /\ UNCHANGED <<ppMounted, polling, interval, polls, refetches>>

\* A fetch of pollStatus fails or is answered non-OK: caught and logged
PollFailed ==
    /\ polls > 0
    /\ polls' = polls - 1
    /\ ppEv' = PpEv("response", "error", 0, "none")
    /\ UNCHANGED <<ppMounted, polling, interval, docStatus, refetches>>

\* A fetch of pollStatus is answered with the document's status. Not completed / failed:
\* setStatus only. Completed / failed: setPolling(false) and onComplete / onError, which
\* calls fetchDocuments(); the store change renders DocumentSidebar, so the effect of a
\* mounted ProcessingProgress runs again. The closure does not look at whether the
\* component is still mounted.
PollAnswered ==
    /\ polls > 0
    /\ IF docStatus \in Terminal
       THEN /\ ppEv.calls < MaxCallbacks
            /\ refetches < MaxRefetches
            /\ refetches' = refetches + 1
            /\ IF ppMounted
               THEN /\ polling' = FALSE
                    /\ EffectRun(polls - 1, FALSE)
               ELSE /\ polls' = polls - 1
                    /\ UNCHANGED <<polling, interval>>
            /\ ppEv' = PpEv("response", docStatus, IF ppMounted THEN 1 ELSE 0,
                            IF docStatus = "completed" THEN "onComplete" ELSE "onError")
       ELSE /\ polls' = polls - 1
            /\ ppEv' = PpEv("response", docStatus, 0, "none")
            /\ UNCHANGED <<polling, interval, refetches>>
    /\ UNCHANGED <<ppMounted, docStatus>>

\* A fetchDocuments() made by onComplete / onError settles and DocumentSidebar renders:
\* a list that shows the document as completed or failed no longer contains a
\* ProcessingProgress for it (unmount: the cleanup clears the interval); after a failed
\* fetch the list is unchanged and the effect runs again
DocsFetched(ok) ==
    /\ refetches > 0
    /\ refetches' = refetches - 1
    /\ IF ~ppMounted
       THEN /\ ppEv' = PpEv("docs", "none", 0, "none")
            /\ UNCHANGED <<ppMounted, polling, interval, polls>>
       ELSE IF ok
            THEN /\ ppMounted' = FALSE
                 /\ interval' = FALSE
                 /\ ppEv' = PpEv("docs", "none", 0, "none")
                 /\ UNCHANGED <<polling, polls>>
            ELSE /\ EffectRun(polls, polling)
                 /\ ppEv' = PpEv("docs", "none", 1, "none")
                 /\ UNCHANGED <<ppMounted, polling>>
    /\ UNCHANGED docStatus

\* DocumentSidebar renders for another reason (a store change, a render of App)
SidebarRerender ==
    /\ ppMounted
    /\ EffectRun(polls, polling)
    /\ ppEv' = PpEv("render", "none", 1, "none")
    /\ UNCHANGED <<ppMounted, polling, docStatus, refetches>>

----------------------------------------------------------------------------
\* WebSocketManager (src/src/services/rag.ts)

Keys == {"chat", "status"}
MgrSockIds == 1..MaxMgrSockets
FreeMgrSock == [rs |-> "FREE", key |-> "none"]
MgrEv(kind, key, s) == [kind |-> kind, key |-> key, s |-> s]
MgrLive(sk, s) == sk[s].rs \in {"CONNECTING", "OPEN"}

\* WebSocketManager.get(key): 0 = undefined
get(key) == connections[key]

\* WebSocketManager.isConnected(key)
isConnectedKey(key) == get(key) # 0 /\ mgrSocks[get(key)].rs = "OPEN"

\* The body of close(key): closes the socket registered under key and deletes the entry
closeEntry(conn, sk, key) ==
    IF conn[key] # 0
    THEN [connections |-> [conn EXCEPT ![key] = 0],
          socks |-> IF MgrLive(sk, conn[key]) THEN [sk EXCEPT ![conn[key]].rs = "CLOSING"] ELSE sk]
    ELSE [connections |-> conn, socks |-> sk]

\* ws.onclose of a socket created under key: this.connections.delete(key)
oncloseEntry(conn, key, s) == [conn EXCEPT ![key] = 0]

\* WebSocketManager.create(key, url, options)
create(key) ==
    LET c == closeEntry(connections, mgrSocks, key)
        s == CHOOSE x \in MgrSockIds : c.socks[x].rs = "FREE"
    IN  /\ \E x \in MgrSockIds : c.socks[x].rs = "FREE"
        /\ mgrSocks' = [c.socks EXCEPT ![s] = [rs |-> "CONNECTING", key |-> key]]
        /\ connections' = [c.connections EXCEPT ![key] = s]
        /\ latest' = [latest EXCEPT ![key] = s]
        /\ mgrEv' = MgrEv("create", key, s)

\* WebSocketManager.close(key)
close(key) ==
    LET c == closeEntry(connections, mgrSocks, key)
    IN  /\ connections[key] # 0
        /\ mgrSocks' = c.socks
        /\ connections' = c.connections
        /\ latest' = [latest EXCEPT ![key] = 0]
        /\ mgrEv' = MgrEv("close", key, 0)

\* WebSocketManager.closeAll()
closeAll ==
    /\ \E k \in Keys : connections[k] # 0
    /\ mgrSocks' = [s \in MgrSockIds |->
                      IF (\E k \in Keys : connections[k] = s) /\ MgrLive(mgrSocks, s)
                      THEN [mgrSocks[s] EXCEPT !.rs = "CLOSING"] ELSE mgrSocks[s]]
    /\ connections' = [k \in Keys |-> 0]
    /\ latest' = [k \in Keys |-> 0]
    /\ mgrEv' = MgrEv("closeAll", "none", 0)

\* ws.onopen
MgrOpen(s) ==
    /\ mgrSocks[s].rs = "CONNECTING"
    /\ mgrSocks' = [mgrSocks EXCEPT ![s].rs = "OPEN"]
    /\ mgrEv' = MgrEv("open", mgrSocks[s].key, s)
    /\ UNCHANGED <<connections, latest>>

\* ws.onerror: the connection failed, its close event follows
MgrError(s) ==
    /\ MgrLive(mgrSocks, s)
    /\ mgrSocks' = [mgrSocks EXCEPT ![s].rs = "CLOSING"]
    /\ mgrEv' = MgrEv("error", mgrSocks[s].key, s)
    /\ UNCHANGED <<connections, latest>>

\* ws.onclose: the close event of a socket that was closed, failed or lost its connection
MgrClosed(s) ==
    LET key == mgrSocks[s].key
    IN  /\ mgrSocks[s].rs \in {"CONNECTING", "OPEN", "CLOSING"}
        /\ connections' = oncloseEntry(connections, key, s)
        /\ mgrSocks' = [mgrSocks EXCEPT ![s] = FreeMgrSock]
        /\ latest' = [latest EXCEPT ![key] = IF @ = s THEN 0 ELSE @]
        /\ mgrEv' = MgrEv("closed", key, s)

chatVars == <<socks, ws, reconnectAttempts, isIntentionallyClosed, timers, clientDoc, owned,
              callerConnects, faults, lastEv, panelVars>>

----------------------------------------------------------------------------
\* Specifications


InitBase ==
    /\ storage = [access |-> 1, refresh |-> 1, user |-> 1]
    /\ socks = [s \in SockIds |-> FreeSock]
    /\ ws = [c \in Clients |-> 0]
    /\ reconnectAttempts = [c \in Clients |-> 0]
    /\ isIntentionallyClosed = [c \in Clients |-> FALSE]
    /\ timers = [c \in Clients |-> <<>>]
    /\ owned = [c \in Clients |-> FALSE]
    /\ callerConnects = 0
    /\ faults = 0
    /\ lastEv = Ev("init", 0, "none")
    /\ selectedDocument = 0
    /\ messages = <<>>
    /\ isGenerating = FALSE
    /\ wsClient = 0
    /\ streamingMessage = ""
    /\ isConnected = FALSE
    /\ effectWsClient = 0
    /\ inits = <<>>
    /\ reqs = [r \in Reqs |-> NoReq]
    /\ nextTok = 2
    /\ apiEv = ApiEv("init", 0, 0)
    /\ userSettings = 0
    /\ authStore = InitialAuthStore
    /\ docStore = InitialDocStore
    /\ op = NoOp
    /\ fetching = 0
    /\ authEv = AuthEv("init", "none")
    /\ ppMounted = FALSE
    /\ polling = FALSE
    /\ interval = FALSE
    /\ polls = 0
    /\ docStatus = "processing"
    /\ refetches = 0
    /\ ppEv = [kind |-> "init", outcome |-> "none", issued |-> 0, cb |-> "none",
               seen |-> FALSE, calls |-> 0]
    /\ connections = [k \in Keys |-> 0]
    /\ mgrSocks = [s \in MgrSockIds |-> FreeMgrSock]
    /\ latest = [k \in Keys |-> 0]
    /\ mgrEv = MgrEv("init", "none", 0)

\* A stand-alone WebSocketChatClient: new WebSocketChatClient(chatId, documentId)
InitWS ==
    /\ InitBase
    /\ clientDoc = [c \in Clients |-> IF c = 1 THEN 1 ELSE 0]

NextWS ==
    \/ \E c \in Clients : CallerConnect(c)
    \/ \E c \in Clients : CallerDisconnect(c)
    \/ \E c \in Clients : CallerSendMessage(c)
    \/ \E c \in Clients : CallerUpdateSettings(c)
    \/ \E s \in SockIds : onopen(s)
    \/ \E s \in SockIds : ServerMessage(s)
    \/ \E s \in SockIds : onclose(s)
    \/ \E s \in SockIds : onerror(s)
    \/ \E c \in Clients : \E i \in 1..Len(timers[c]) : TimerFire(c, i)
    \/ TokensCleared

SpecWS == InitWS /\ [][NextWS]_vars

\* ChatPanel mounted in App, nothing selected yet
InitPanel ==
    /\ InitBase
    /\ clientDoc = [c \in Clients |-> 0]

NextPanel ==
    \/ \E d \in Docs : SelectDocument(d)
    \/ DeselectDocument
    \/ AppRerender
    \/ \E i \in 1..Len(inits) : SessionCreated(i)
    \/ \E i \in 1..Len(inits) : SessionFailed(i)
    \/ handleSend
    \/ \E s \in SockIds : onopen(s)
    \/ \E s \in SockIds : ServerMessage(s)
    \/ \E s \in SockIds : onclose(s)
    \/ \E s \in SockIds : onerror(s)
    \/ \E c \in Clients : \E i \in 1..Len(timers[c]) : TimerFire(c, i)

SpecPanel == InitPanel /\ [][NextPanel]_vars

\* What the browser and the server guarantee: a connecting socket opens or fails; the
\* error and close events of a closing or failed socket are delivered; the server
\* answers an open socket it owes a response; a pending setTimeout callback runs.
\* Nothing is assumed about the user or about network failures.
PanelFairness ==
    /\ \A s \in SockIds :
          WF_vars(socks[s].rs = "CONNECTING" /\ (onopen(s) \/ onerror(s)))
    /\ \A s \in SockIds :
          WF_vars(socks[s].rs \in {"CLOSING", "ERRORED"} /\ (onclose(s) \/ onerror(s)))
    /\ \A s \in SockIds : WF_vars(ServerMessage(s))
    /\ \A c \in Clients : WF_vars(\E i \in 1..Len(timers[c]) : TimerFire(c, i))

SpecPanelFair == SpecPanel /\ PanelFairness

\* The ApiClient with requests in flight concurrently
InitApi ==
    /\ InitBase
    /\ clientDoc = [c \in Clients |-> 0]

NextApi ==
    \/ \E r \in Reqs : ApiRequest(r) /\ UNCHANGED <<chatVars, authVars, uiVars>>
    \/ \E r \in Reqs : ApiResponseOk(r) /\ UNCHANGED <<chatVars, authVars, uiVars>>
    \/ \E r \in Reqs : \E status \in ErrorStatuses : ApiResponseError(r, status) /\ UNCHANGED <<chatVars, authVars, uiVars>>
    \/ \E r \in Reqs : \E rotate \in BOOLEAN : \E user \in {0, 1} :
          RefreshOk(r, rotate, user) /\ UNCHANGED <<chatVars, authVars, uiVars>>
    \/ \E r \in Reqs : RefreshFail(r) /\ UNCHANGED <<chatVars, authVars, uiVars>>

SpecApi == InitApi /\ [][NextApi]_vars

\* The application at start-up: nobody logged in and nothing stored, or the session of
\* a logged-in user restored from localStorage (tokens, user, 'user_settings', 'auth-store')
InitAuth ==
    /\ storage \in {clearTokens, [access |-> 1, refresh |-> 1, user |-> 1]}
    /\ socks = [s \in SockIds |-> FreeSock]
    /\ ws = [c \in Clients |-> 0]
    /\ reconnectAttempts = [c \in Clients |-> 0]
    /\ isIntentionallyClosed = [c \in Clients |-> FALSE]
    /\ timers = [c \in Clients |-> <<>>]
    /\ clientDoc = [c \in Clients |-> 0]
    /\ owned = [c \in Clients |-> FALSE]
    /\ callerConnects = 0
    /\ faults = 0
    /\ lastEv = Ev("init", 0, "none")
    /\ selectedDocument = 0
    /\ messages = <<>>
    /\ isGenerating = FALSE
    /\ wsClient = 0
    /\ streamingMessage = ""
    /\ isConnected = FALSE
    /\ effectWsClient = 0
    /\ inits = <<>>
    /\ reqs = [r \in Reqs |-> NoReq]
    /\ nextTok = 2
    /\ apiEv = ApiEv("init", 0, 0)
    /\ userSettings = storage.user
    /\ authStore = IF storage.access = 0 THEN InitialAuthStore
                   ELSE [InitialAuthStore EXCEPT !.user = 1, !.isAuthenticated = TRUE]
    /\ docStore = InitialDocStore
    /\ op = NoOp
    /\ fetching = 0
    /\ authEv = AuthEv("init", "none")
    /\ ppMounted = FALSE
    /\ polling = FALSE
    /\ interval = FALSE
    /\ polls = 0
    /\ docStatus = "processing"
    /\ refetches = 0
    /\ ppEv = [kind |-> "init", outcome |-> "none", issued |-> 0, cb |-> "none",
               seen |-> FALSE, calls |-> 0]
    /\ connections = [k \in Keys |-> 0]
    /\ mgrSocks = [s \in MgrSockIds |-> FreeMgrSock]
    /\ latest = [k \in Keys |-> 0]
    /\ mgrEv = MgrEv("init", "none", 0)

NextAuth ==
    \/ \E r \in Reqs : LoginStart(r) /\ UNCHANGED <<chatVars, uiVars>>
    \/ \E valid \in BOOLEAN : \E settings \in BOOLEAN :
          LoginSettled(valid, settings) /\ UNCHANGED <<chatVars, uiVars>>
    \/ \E r \in Reqs : LogoutStart(r) /\ UNCHANGED <<chatVars, uiVars>>
    \/ LogoutSettled /\ UNCHANGED <<chatVars, uiVars>>
    \/ \E r \in Reqs : FetchStart(r) /\ UNCHANGED <<chatVars, uiVars>>
    \/ FetchSettled /\ UNCHANGED <<chatVars, uiVars>>
    \/ selectDocument /\ UNCHANGED <<chatVars, uiVars>>
    \/ \E r \in Reqs : checkAuthStart(r) /\ UNCHANGED <<chatVars, uiVars>>
    \/ checkAuthSettled /\ UNCHANGED <<chatVars, uiVars>>
    \/ \E r \in Reqs : registerStart(r) /\ UNCHANGED <<chatVars, uiVars>>
    \/ registerSettled /\ UNCHANGED <<chatVars, uiVars>>
    \/ AuthApiStep /\ UNCHANGED <<chatVars, uiVars>>

SpecAuth == InitAuth /\ [][NextAuth]_vars

\* DocumentSidebar with one uploaded document that the server is processing
NextProgress ==
    \/ Mount /\ UNCHANGED <<storage, chatVars, apiVars, authVars, mgrVars>>
    \/ IntervalTick /\ UNCHANGED <<storage, chatVars, apiVars, authVars, mgrVars>>
    \/ \E st \in Terminal : ServerFinishes(st) /\ UNCHANGED <<storage, chatVars, apiVars, authVars, mgrVars>>
    \/ PollFailed /\ UNCHANGED <<storage, chatVars, apiVars, authVars, mgrVars>>
    \/ PollAnswered /\ UNCHANGED <<storage, chatVars, apiVars, authVars, mgrVars>>
    \/ \E ok \in BOOLEAN : DocsFetched(ok) /\ UNCHANGED <<storage, chatVars, apiVars, authVars, mgrVars>>
    \/ SidebarRerender /\ UNCHANGED <<storage, chatVars, apiVars, authVars, mgrVars>>

InitProgress ==
    /\ InitBase
    /\ clientDoc = [c \in Clients |-> 0]

SpecProgress == InitProgress /\ [][NextProgress]_vars

\* The WebSocketManager used for two keys
InitManager ==
    /\ InitBase
    /\ clientDoc = [c \in Clients |-> 0]

NextManager ==
    \/ \E k \in Keys : create(k) /\ UNCHANGED <<storage, chatVars, apiVars, authVars, ppVars>>
    \/ \E k \in Keys : close(k) /\ UNCHANGED <<storage, chatVars, apiVars, authVars, ppVars>>
    \/ closeAll /\ UNCHANGED <<storage, chatVars, apiVars, authVars, ppVars>>
    \/ \E s \in MgrSockIds : MgrOpen(s) /\ UNCHANGED <<storage, chatVars, apiVars, authVars, ppVars>>
    \/ \E s \in MgrSockIds : MgrError(s) /\ UNCHANGED <<storage, chatVars, apiVars, authVars, ppVars>>
    \/ \E s \in MgrSockIds : MgrClosed(s) /\ UNCHANGED <<storage, chatVars, apiVars, authVars, ppVars>>

SpecManager == InitManager /\ [][NextManager]_vars

----------------------------------------------------------------------------
\* Properties

RECURSIVE Concat(_)
Concat(q) == IF q = <<>> THEN "" ELSE Head(q) \o Concat(Tail(q))

LiveSockets == {s \in SockIds : Live(socks, s)}

\* C1: once disconnect() has been called on a client (its flag is set), no reconnection
\* is scheduled by a close handler and no reconnection timer opens a socket for it.
C1_DisconnectStopsReconnect ==
    /\ (lastEv.kind = "close" /\ lastEv.intent) => lastEv.sched = 0
    /\ ~(lastEv.kind = "timer" /\ lastEv.intent /\ ~lastEv.threw)

\* C2: an unexpected close with fewer than 5 attempts made schedules exactly one timer,
\* and the n-th attempt (n = attempts made + 1) is scheduled with delay n * 1000 ms.
C2_DelayIsAttemptNumberTimesBase ==
    (lastEv.kind = "close" /\ ~lastEv.intent /\ lastEv.att < maxReconnectAttempts) =>
        (lastEv.sched = 1 /\ lastEv.delay = (lastEv.att + 1) * reconnectInterval)

\* C3: an automatic reconnection attempt is executed only while fewer than 5 attempts
\* have been made since the last successful open.
C3_AtMostFiveAttempts ==
    lastEv.kind = "timer" => lastEv.att < maxReconnectAttempts

\* C4: while a response is being streamed to ChatPanel the display buffer is the
\* concatenation of the tokens the server sent for it, in order; response_complete
\* empties the buffer and appends a message carrying the server's content.
C4_BufferIsConcatenation ==
    /\ \A s \in SockIds :
          (socks[s].rs = "OPEN" /\ socks[s].resp /\ owned[socks[s].owner]) =>
              streamingMessage = Concat(socks[s].toks)
    /\ (lastEv.kind = "message" /\ lastEv.cb = "onResponseComplete" /\ owned[lastEv.c]) =>
          /\ streamingMessage = ""
          /\ messages # <<>>
          /\ messages[Len(messages)] = [role |-> "ai", content |-> lastEv.data]

C4_Witness ==
    /\ lastEv.kind = "message" /\ lastEv.cb = "onResponseComplete"
    /\ lastEv.buf = "ba" /\ lastEv.data = "ab[p1]"
    /\ streamingMessage = ""
    /\ messages = <<[role |-> "user", content |-> "q"], [role |-> "ai", content |-> "ab[p1]"]>>

\* sendMessage or updateSettings called while this.ws is absent or not OPEN throws,
\* transmits nothing and leaves the client as it was (nothing is queued).
SendWhileNotOpenThrows ==
    [][(lastEv'.kind \in {"sendMessage", "updateSettings"} /\ ~lastEv'.wasConnected) =>
          /\ lastEv'.threw
          /\ lastEv'.sent = "none"
          /\ UNCHANGED <<socks, ws, timers, reconnectAttempts, isIntentionallyClosed>>]_vars

\* C5: sendMessage or updateSettings called at any time after disconnect() throws and
\* transmits nothing, unless the caller itself has called connect() again since.
C5_SendAfterDisconnectThrows ==
    (/\ lastEv.kind \in {"sendMessage", "updateSettings"}
     /\ lastEv.intent
     /\ lastEv.by # "caller") => (lastEv.threw /\ lastEv.sent = "none")

\* C6: ChatPanel never has more than one connecting or open socket.
C6_AtMostOneLiveSocket == Cardinality(LiveSockets) <= 1

\* C7: the error handler invokes onError and leaves isIntentionallyClosed as it was, and
\* the close that follows an error schedules one reconnection when the client was not
\* disconnected and fewer than 5 attempts were made.
C7_ErrorKeepsReconnecting ==
    /\ lastEv.kind = "error" =>
          (lastEv.cb = "onError" /\ isIntentionallyClosed[lastEv.c] = lastEv.intent)
    /\ (lastEv.kind = "close" /\ lastEv.afterErr /\ ~lastEv.intent
            /\ lastEv.att < maxReconnectAttempts) => lastEv.sched = 1

C7_Witness ==
    /\ lastEv.kind = "close" /\ lastEv.afterErr /\ lastEv.sched = 1
    /\ ~isIntentionallyClosed[lastEv.c] /\ timers[lastEv.c] # <<>>

\* C8: a payload JSON.parse rejects invokes no callback, throws nothing out of the
\* handler and changes neither the sockets (the receiving one stays open for later
\* messages), this.ws nor the reconnect counter.
C8_MalformedDiscarded ==
    [][(lastEv'.kind = "message" /\ ~lastEv'.json) =>
          /\ lastEv'.cb = "none"
          /\ ~lastEv'.threw
          /\ UNCHANGED <<socks, ws, timers, reconnectAttempts, isIntentionallyClosed>>]_vars

C8_Witness ==
    /\ lastEv.kind = "message" /\ ~lastEv.json /\ lastEv.cb = "none" /\ ~lastEv.threw
    /\ isConnectedClient(lastEv.c)

\* C9: a request is sent at most twice and refreshed at most once; a first 401 calls
\* refreshToken() once; the retry carries the access token that refresh stored.
C9_RefreshThenRetryOnce ==
    /\ \A r \in Reqs :
          /\ reqs[r].sends <= 2
          /\ reqs[r].refreshes <= 1
          /\ reqs[r].retry => reqs[r].refreshes = 1
          /\ reqs[r].sends = 2 => reqs[r].retry
    /\ apiEv.kind = "retry" =>
          /\ reqs[apiEv.r].sends = 2
          /\ reqs[apiEv.r].tok = apiEv.tok
          /\ storage.access = apiEv.tok
    /\ (apiEv.kind = "fail" /\ reqs[apiEv.r].sends = 2) => reqs[apiEv.r].refreshes = 1

C9_Witness ==
    /\ apiEv.kind = "fail" /\ apiEv.status = 401
    /\ reqs[apiEv.r].sends = 2 /\ reqs[apiEv.r].refreshes = 1

\* C10: whenever a request finally fails with 401 the stored access token, refresh token
\* and cached user are gone.
C10_Final401ClearsCredentials ==
    (apiEv.kind = "fail" /\ apiEv.status = 401) => storage = clearTokens

\* C11: a generation in progress always ends: isGenerating leads to ~isGenerating, also
\* when the channel closes before response_complete arrives.
C11_GeneratingEventuallyEnds == isGenerating ~> ~isGenerating

\* A generation in progress ends when the server's error message arrives, and handleSend
\* never leaves isGenerating set after sendMessage threw.
GeneratingEndsOnErrorMessage ==
    /\ (lastEv.kind = "message" /\ lastEv.cb = "onChatError" /\ owned[lastEv.c]) => ~isGenerating
    /\ (lastEv.kind = "handleSend" /\ lastEv.threw) => ~isGenerating

\* Once no socket carries an unanswered chat_message, no step of the panel, of a socket
\* or of a timer ends the generation: whatever happens next, isGenerating stays set.
LostRequestNeverEnds ==
    [][(isGenerating /\ \A s \in SockIds : ~socks[s].resp) => isGenerating']_vars

\* C12: the promise of connect() is pending while the socket connects, is resolved only
\* by the open event (after onConnect) and so only for a socket that opened, and is
\* rejected by an error event that comes before the open event.
C12_PromiseFollowsHandshake ==
    /\ \A s \in SockIds :
          /\ socks[s].rs = "CONNECTING" => socks[s].promise = "pending"
          /\ socks[s].promise = "resolved" => socks[s].wasOpen
          /\ (socks[s].rs = "ERRORED" /\ ~socks[s].wasOpen) => socks[s].promise = "rejected"
    /\ lastEv.kind = "open" => (lastEv.cb = "onConnect" /\ lastEv.settled = "resolved")
    /\ lastEv.kind = "error" => lastEv.settled \in {"rejected", "none"}

C12_Witness ==
    /\ lastEv.kind = "error" /\ lastEv.settled = "rejected"
    /\ \E s \in SockIds :
          socks[s].rs = "ERRORED" /\ ~socks[s].wasOpen /\ socks[s].promise = "rejected"

\* The callback the event surface names for each message type
ExpectedCallback(type) ==
    IF type = "token" THEN "onToken"
    ELSE IF type = "response_complete" THEN "onResponseComplete"
    ELSE IF type = "error" THEN "onChatError"
    ELSE IF type \in {"connection", "message_saved", "response_start", "chunks_retrieved",
                      "settings_updated"} THEN "none"
    ELSE "onMessage"

\* C13: a parsed message invokes the one callback its type selects (none for the types
\* that are only logged, onMessage for an unrecognised type), an unparsable one invokes
\* none, and an open / close event invokes onConnect / onDisconnect.
C13_OneCallbackPerEvent ==
    /\ [][\A s \in SockIds : socks[s].rs = "OPEN" =>
             \A p \in PayloadsFor(s) : onmessage(s, p) =>
                 lastEv'.cb = IF p.json /\ p.obj THEN ExpectedCallback(p.type) ELSE "none"]_vars
    /\ [](lastEv.kind = "open" => lastEv.cb = "onConnect")
    /\ [](lastEv.kind = "close" => lastEv.cb = "onDisconnect")
    /\ [](lastEv.kind = "message" =>
             lastEv.cb \in {"none", "onToken", "onResponseComplete", "onChatError", "onMessage"})

C13_Witness ==
    /\ lastEv.kind = "message" /\ lastEv.json /\ lastEv.cb = "onChatError"
    /\ isConnectedClient(lastEv.c)

\* C14: when useAuthStore.logout completes, whether the server request succeeded, failed
\* or was skipped, storage holds no access token, refresh token, cached user or
\* 'user_settings', the auth store is logged out and the documents store is as created.
C14_LogoutDiscardsRecords ==
    authEv.kind = "logout" =>
        /\ storage = clearTokens
        /\ userSettings = 0
        /\ authStore.user = 0 /\ ~authStore.isAuthenticated
        /\ docStore = InitialDocStore

C14_Witness ==
    /\ authEv = AuthEv("logout", "failed")
    /\ storage = clearTokens /\ userSettings = 0
    /\ docStore = InitialDocStore /\ fetching # 0

\* C15: a render of App that leaves the selected document as it is (another state change
\* of App, a message appended by handleSend or by onResponseComplete) starts no
\* initializeChat: no chat session is created and no client is constructed for it.
C15_RerenderStartsNoSession ==
    [][(/\ selectedDocument' = selectedDocument
        /\ lastEv'.kind \in {"rerender", "handleSend", "message"}) => inits' = inits]_vars

\* C16: the reconnect counter of every client stays within 0..maxReconnectAttempts.
C16_CounterWithinBudget ==
    \A c \in Clients : reconnectAttempts[c] \in 0..maxReconnectAttempts

\* C17: once a poll has returned completed or failed, no further status request is
\* issued and onComplete / onError is invoked at most once in all.
C17_PollingStopsAtTerminal ==
    /\ ~(ppEv.seen /\ ppEv.issued > 0)
    /\ ppEv.calls <= 1

\* A poll that fails leaves polling and the interval as they were
FailedPollKeepsPolling ==
    [][(ppEv'.kind = "response" /\ ppEv'.outcome = "error") =>
          UNCHANGED <<ppMounted, polling, interval>>]_vars

\* The client ChatPanel holds as wsClient was constructed for the selected document.
ActiveClientOfSelection ==
    wsClient # 0 => clientDoc[wsClient] = selectedDocument

\* An initializeChat whose connect() resolves after the selection has moved on
\* neither installs its client nor leaves its socket open.
LateInitializeChatDropped ==
    (/\ lastEv.kind = "open"
     /\ lastEv.settled = "resolved"
     /\ clientDoc[lastEv.c] # selectedDocument)
        => (wsClient # lastEv.c /\ ~isConnectedClient(lastEv.c))

\* C18: the client held as wsClient always belongs to the selected document, and an
\* initializeChat of a previous selection that finishes late neither installs its
\* client as the active one nor leaves its socket open.
C18_ActiveClientBelongsToSelection ==
    ActiveClientOfSelection /\ LateInitializeChatDropped

\* C19: under each key get(key) is the socket create(key) returned last, for as long as
\* that socket has not closed and close(key) / closeAll() was not called, and at most
\* one socket created under the key is connecting or open.
C19_OneConnectionPerKey ==
    \A k \in Keys :
        /\ latest[k] # 0 => get(k) = latest[k]
        /\ Cardinality({s \in MgrSockIds : mgrSocks[s].key = k /\ MgrLive(mgrSocks, s)}) <= 1

\* C20: after a failed login (the request failed, or the response lacks access, refresh
\* or user) storage holds no access token, refresh token or cached user, the auth store
\* has isAuthenticated = false, user = null, isLoading = false and an error, and the
\* error is rethrown to the caller of login.
C20_FailedLoginLeavesNoTokens ==
    (authEv.kind = "login" /\ authEv.failed) =>
        /\ storage = clearTokens
        /\ authStore = [user |-> 0, isAuthenticated |-> FALSE, isLoading |-> FALSE,
                        error |-> TRUE]
        /\ authEv.outcome = "threw"

\* A login has failed: storage was cleared, the store records the error, the error was rethrown
C20_Witness ==
    /\ authEv.kind = "login"
    /\ authEv.failed
    /\ authEv.outcome = "threw"
    /\ storage = clearTokens
    /\ authStore.error

\* No operation of the auth store and no request is in flight
AuthQuiescent == op = NoOp /\ fetching = 0 /\ \A r \in Reqs : reqs[r].st = "idle"

\* C21: the auth store and the token storage agree: whenever no auth operation is in
\* flight and the store reports isAuthenticated, storage holds an access token and a
\* refresh token.
C21_StoreAgreesWithStorage ==
    (AuthQuiescent /\ authStore.isAuthenticated) => hasTokens(storage)

\* C22: checkAuth logs the user out only when authentication is lost: without tokens or
\* on a 401 of the profile fetch the store ends unauthenticated (on 401 the tokens are
\* cleared); on any other error the tokens are left as they are and isAuthenticated
\* tells whether a cached user exists; on every path isLoading ends false.
C22_CheckAuthLogsOutOnlyOnLoss ==
    [][authEv'.kind = "checkAuth" =>
          /\ ~authStore'.isLoading
          /\ authEv'.outcome = "noTokens" =>
                (~authStore'.isAuthenticated /\ authStore'.user = 0 /\ storage' = storage)
          /\ authEv'.outcome = "401" =>
                (~authStore'.isAuthenticated /\ authStore'.user = 0 /\ storage' = clearTokens)
          /\ authEv'.outcome = "other" =>
                /\ storage' = storage
                /\ authStore'.user = storage.user
                /\ authStore'.isAuthenticated = (storage.user # 0)
          /\ authEv'.outcome = "ok" => (authStore'.isAuthenticated /\ storage' = storage)]_vars

\* A profile fetch of checkAuth failed with an error other than 401 and the user is
\* still logged in, with the tokens in storage
C22_Witness ==
    /\ authEv = AuthEv("checkAuth", "other")
    /\ authStore.isAuthenticated
    /\ hasTokens(storage)
    /\ ~authStore.isLoading

\* The refresh attempt of request r has just failed, and while it was under way the
\* refresh attempt of another request succeeded and stored new credentials
RefreshFailedAfterOtherSucceeded(r) ==
    /\ apiEv.kind = "fail" /\ apiEv.r = r
    /\ reqs[r].st = "failed" /\ reqs[r].sends = 1 /\ reqs[r].refreshes = 1
    /\ reqs[r].epoch < nextTok

\* C23: when several requests are answered 401 concurrently, the credentials stored by
\* a successful refresh are not cleared by the failing refresh attempt of another request.
C23_SuccessfulRefreshSurvives ==
    \A r \in Reqs : RefreshFailedAfterOtherSucceeded(r) => storage # clearTokens

====
